---- MODULE Spec2Model ----
(***************************************************************************)
(* A model of hayaku, a project-scaffolding tool: the template catalog     *)
(* (src/src/hayaku_context.rs), the render context (src/src/env.rs) and    *)
(* the generation engine (src/src/templating.rs).                          *)
(*                                                                         *)
(* Strings are sequences of one-character strings, so that the code's      *)
(* character tests (a leading '[', the extension after the last '.', an    *)
(* ASCII upper-casing) are computed and not assumed.  A path is a sequence *)
(* of segments, each segment a string.                                     *)
(***************************************************************************)
EXTENDS Integers, Sequences, FiniteSets, TLC

VARIABLES
    \* ---- catalog (struct Hayaku and the directories it is built from)
    roots,                \* the two template roots on disk, by origin
    load_state,           \* "new" | "ok" | "err": outcome of Hayaku::try_new_from_dir
    load_err,             \* the error try_new_from_dir returned, if any
    local_templates,      \* Hayaku.local_templates: id -> TemplateEntry
    built_in_templates,   \* Hayaku.built_in_templates: id -> TemplateEntry
    combined,             \* the Vec returned by the last all_templates()
    got,                  \* the Option returned by the last get(id)
    \* ---- generation run (create_project)
    template_tree,        \* the template directory: path -> file content
    parent_git,           \* a .git entry exists in an ancestor of template_dir
    context,              \* the TeraContext handed to create_project
    dest_exists,          \* dest_dir exists
    dest_tree,            \* the destination: path -> bytes written
    pending,              \* walk entries not processed yet
    gen_state,            \* "idle" | "walking" | "done" | "failed"
    gen_err,              \* the error create_project returned, "" when none
    \* ---- process_dest_path as a function
    pdp_in,               \* [path, context]: the arguments of the last call
    pdp_out,              \* the PathBuf it returned
    \* ---- variable collection (prompt_for_env, build_context)
    env_cfg,              \* config.env: variable key -> EnvVarConfig
    global_env,           \* HayakuSettings.global_env as the settings file holds it
    env_state,            \* "idle" | "prompting" | "collected" | "built" | "err"
    prompt_queue,         \* the sorted keys prompt_for_env has still to ask for
    prompted,             \* the keys asked for so far, in the order asked
    values,               \* the HashMap prompt_for_env fills
    \* ---- canonical_env_key as a function
    cek_in,               \* [raw]: the argument of the last call
    cek_out               \* the String it returned

catVars == <<roots, load_state, load_err, local_templates, built_in_templates, combined, got>>
genVars == <<template_tree, parent_git, context, dest_exists, dest_tree, pending, gen_state,
            gen_err>>
pdpVars == <<pdp_in, pdp_out>>
envVars == <<env_cfg, global_env, env_state, prompt_queue, prompted, values>>
cekVars == <<cek_in, cek_out>>
vars == <<catVars, genVars, pdpVars, envVars, cekVars>>

----------------------------------------------------------------------------
(* Characters and strings *)

LowerCase == <<"a","b","c","d","e","f","g","h","i","j","k","l","m",
               "n","o","p","q","r","s","t","u","v","w","x","y","z">>
UpperCase == <<"A","B","C","D","E","F","G","H","I","J","K","L","M",
               "N","O","P","Q","R","S","T","U","V","W","X","Y","Z">>
DigitChars == <<"0","1","2","3","4","5","6","7","8","9">>

\* A byte that is not valid UTF-8 on its own (0xFF).
ByteFF == "<FF>"

\* The characters the model uses, in byte order (String's Ord is bytewise).
ByteOrder ==
    <<"\n", "\r", " ", "\"", "-", ".", "/">> \o DigitChars \o <<":", "=">>
    \o UpperCase \o <<"[", "]", "_">> \o LowerCase \o <<"{", "}", ByteFF>>

Range(s) == {s[i] : i \in DOMAIN s}

IndexIn(s, c) == CHOOSE i \in DOMAIN s : s[i] = c

to_ascii_uppercase(c) ==
    IF c \in Range(LowerCase) THEN UpperCase[IndexIn(LowerCase, c)] ELSE c

to_ascii_lowercase(c) ==
    IF c \in Range(UpperCase) THEN LowerCase[IndexIn(UpperCase, c)] ELSE c

is_ascii_alphanumeric(c) ==
    c \in Range(LowerCase) \cup Range(UpperCase) \cup Range(DigitChars)

eq_ignore_ascii_case(a, b) ==
    /\ Len(a) = Len(b)
    /\ \A i \in DOMAIN a : to_ascii_lowercase(a[i]) = to_ascii_lowercase(b[i])

ByteRank(c) == IndexIn(ByteOrder, c)

\* str::cmp: "Less" | "Equal" | "Greater", lexicographic on bytes.
RECURSIVE StrCmp(_, _)
StrCmp(a, b) ==
    IF a = <<>> /\ b = <<>> THEN "Equal"
    ELSE IF a = <<>> THEN "Less"
    ELSE IF b = <<>> THEN "Greater"
    ELSE IF ByteRank(Head(a)) < ByteRank(Head(b)) THEN "Less"
    ELSE IF ByteRank(Head(a)) > ByteRank(Head(b)) THEN "Greater"
    ELSE StrCmp(Tail(a), Tail(b))

starts_with(s, c) == Len(s) > 0 /\ s[1] = c
ends_with(s, c) == Len(s) > 0 /\ s[Len(s)] = c

\* Option<T>
None == [some |-> FALSE]
Some(v) == [some |-> TRUE, v |-> v]

\* An empty HashMap / tera Context / directory.
EmptyMap == [k \in {} |-> k]

MapInsert(m, k, v) == [x \in DOMAIN m \cup {k} |-> IF x = k THEN v ELSE m[x]]

\* All orders in which a set can be iterated (HashMap and read_dir give no order).
Orders(S) ==
    {s \in [1..Cardinality(S) -> S] : \A i, j \in 1..Cardinality(S) : i # j => s[i] # s[j]}

----------------------------------------------------------------------------
(* String literals *)

s_rust == <<"r","u","s","t">>
s_go == <<"g","o">>
s_templates == <<"t","e","m","p","l","a","t","e","s">>
s_built_in == <<"b","u","i","l","t","_","i","n">>
s_Zed == <<"Z","e","d">>
s_hayaku_toml == <<"h","a","y","a","k","u",".","t","o","m","l">>
s_dot_git == <<".","g","i","t">>
s_dot_gitignore == <<".","g","i","t","i","g","n","o","r","e">>
s_tera == <<"t","e","r","a">>
s_project_name == <<"p","r","o","j","e","c","t","_","n","a","m","e">>
s_PROJECT_NAME == <<"P","R","O","J","E","C","T","_","N","A","M","E">>
s_template_name == <<"t","e","m","p","l","a","t","e","_","n","a","m","e">>
s_demo == <<"d","e","m","o">>
s_nested == <<"n","e","s","t","e","d">>
s_file_txt == <<"f","i","l","e",".","t","x","t">>
s_config_toml == <<"c","o","n","f","i","g",".","t","o","m","l">>
s_ignored_txt == <<"i","g","n","o","r","e","d",".","t","x","t">>
s_config == <<"c","o","n","f","i","g">>
s_config_toml_tera == <<"c","o","n","f","i","g",".","t","o","m","l",".","t","e","r","a">>
s_README_TERA == <<"R","E","A","D","M","E",".","T","E","R","A">>
s_README == <<"R","E","A","D","M","E">>
s_skip_rs == <<"s","k","i","p",".","r","s">>
s_logo_tera == <<"l","o","g","o",".","t","e","r","a">>
s_main_rs == <<"m","a","i","n",".","r","s">>
s_output == <<"o","u","t","p","u","t">>
t_Hello == <<"H","e","l","l","o"," ">>
t_name_eq == <<"n","a","m","e"," ","="," ","\"">>
t_quote == <<"\"">>
t_ignored_line == <<"i","g","n","o","r","e","d",".","t","x","t","\n">>
t_nope == <<"n","o","p","e">>
t_secret == <<"s","e","c","r","e","t">>
t_template_section == <<"[","t","e","m","p","l","a","t","e","]","\n">>
t_fn_main == <<"f","n"," ","m","a","i","n","(",")"," ","{","}","\n">>
t_Hello_demo == <<"H","e","l","l","o"," ","d","e","m","o">>
t_name_demo == <<"n","a","m","e"," ","="," ","\"","d","e","m","o","\"">>
s_crate_type == <<"c","r","a","t","e","_","t","y","p","e">>
s_CRATE_TYPE == <<"C","R","A","T","E","_","T","Y","P","E">>
s_with_hyphen == <<"w","i","t","h","-","h","y","p","h","e","n">>
s_WITH_HYPHEN == <<"W","I","T","H","_","H","Y","P","H","E","N">>
s_TEMPLATE_NAME == <<"T","E","M","P","L","A","T","E","_","N","A","M","E">>
s_license == <<"l","i","c","e","n","s","e">>
s_LICENSE == <<"L","I","C","E","N","S","E">>
s_MIT == <<"M","I","T">>
s_lib == <<"l","i","b">>
s_bin == <<"b","i","n">>
s_true == <<"t","r","u","e">>
s_false == <<"f","a","l","s","e">>
s_x == <<"x">>
s_sentinel == <<"/","/"," ","h","a","y","a","k","u",":"," ","s","k","i","p","-","t","e","m","p","l","a","t","i","n","g">>

----------------------------------------------------------------------------
(* Template catalog: src/src/config.rs and src/src/hayaku_context.rs *)

\* Most entries the two template roots hold together.
MaxDirs == 3

\* Names a root's entries may have, and names a hayaku.toml may declare.
DirNames == {s_rust, s_go}
DeclaredNames == {s_rust, s_go}
Origins == {"Local", "BuiltIn"}

\* What a root's entry is: a plain file, or a directory whose hayaku.toml is
\* absent ("none"), unparsable ("bad") or parsed ("ok").
EntryKinds ==
    {[kind |-> k, name |-> <<>>, display_name |-> None] : k \in {"file", "none", "bad"}}
    \cup {[kind |-> "ok", name |-> n, display_name |-> d] :
            n \in DeclaredNames, d \in {None, Some(s_Zed)}}

RootPath(origin) == IF origin = "Local" THEN <<s_templates>> ELSE <<s_built_in>>

\* TemplateConfig::default(dir)
TemplateConfigDefault(dir) ==
    [name |-> dir, display_name |-> None, description |-> None,
     author |-> None, env |-> EmptyMap]

\* A try_from_dir that fails on a directory without hayaku.toml.
try_from_dir_requires_metadata(path, meta) ==
    IF meta.kind = "file"
    THEN [ok |-> FALSE, config |-> TemplateConfigDefault(<<>>),
          err |-> [kind |-> "NotADirectory", path |-> path]]
    ELSE IF meta.kind = "ok"
    THEN [ok |-> TRUE,
          config |-> [name |-> meta.name, display_name |-> meta.display_name,
                      description |-> None, author |-> None, env |-> EmptyMap],
          err |-> [kind |-> "", path |-> <<>>]]
    ELSE [ok |-> FALSE, config |-> TemplateConfigDefault(<<>>),
          err |-> [kind |-> "ConfigParse", path |-> path \o <<s_hayaku_toml>>]]

\* TemplateConfig::try_from_dir(path), `meta` being what the directory holds.
try_from_dir(path, meta) ==
    IF meta.kind = "file"
    THEN [ok |-> FALSE, config |-> TemplateConfigDefault(<<>>),
          err |-> [kind |-> "NotADirectory", path |-> path]]
    ELSE IF meta.kind = "bad"
    THEN [ok |-> FALSE, config |-> TemplateConfigDefault(<<>>),
          err |-> [kind |-> "ConfigParse", path |-> path \o <<s_hayaku_toml>>]]
    ELSE IF meta.kind = "ok"
    THEN [ok |-> TRUE,
          config |-> [name |-> meta.name, display_name |-> meta.display_name,
                      description |-> None, author |-> None, env |-> EmptyMap],
          err |-> [kind |-> "", path |-> <<>>]]
    ELSE [ok |-> TRUE, config |-> TemplateConfigDefault(path[Len(path)]),
          err |-> [kind |-> "", path |-> <<>>]]

\* A loop that leaves out a directory whose hayaku.toml does not parse and
\* goes on with the next entry.
RECURSIVE LoadLoop_skip_unparsable(_, _, _, _, _)
LoadLoop_skip_unparsable(dir, entries, origin, order, templates) ==
    IF order = <<>>
    THEN [ok |-> TRUE, templates |-> templates, err |-> [kind |-> "", path |-> <<>>]]
    ELSE LET name == Head(order)
             path == dir \o <<name>>
             r == try_from_dir(path, entries[name])
         IN  IF entries[name].kind = "file" \/ ~r.ok
             THEN LoadLoop_skip_unparsable(dir, entries, origin, Tail(order), templates)
             ELSE LoadLoop_skip_unparsable(dir, entries, origin, Tail(order),
                                           MapInsert(templates, r.config.name,
                                                     [config |-> r.config, path |-> path,
                                                      origin |-> origin]))

\* The loop of load_templates_from_dir over read_dir's entries, in `order`.
RECURSIVE LoadLoop(_, _, _, _, _)
LoadLoop(dir, entries, origin, order, templates) ==
    IF order = <<>>
    THEN [ok |-> TRUE, templates |-> templates, err |-> [kind |-> "", path |-> <<>>]]
    ELSE LET name == Head(order)
             path == dir \o <<name>>
         IN  IF entries[name].kind = "file"
             THEN LoadLoop(dir, entries, origin, Tail(order), templates)
             ELSE LET r == try_from_dir(path, entries[name])
                  IN  IF ~r.ok
                      THEN [ok |-> FALSE, templates |-> EmptyMap, err |-> r.err]
                      ELSE LoadLoop(dir, entries, origin, Tail(order),
                                    MapInsert(templates, r.config.name,
                                              [config |-> r.config, path |-> path,
                                               origin |-> origin]))

\* A load_templates_from_dir that hands a missing root to read_dir.
load_templates_from_dir_no_exists_check(root, origin, order) ==
    IF ~root.exists
    THEN [ok |-> FALSE, templates |-> EmptyMap,
          err |-> [kind |-> "ReadDir", path |-> RootPath(origin)]]
    ELSE LoadLoop(RootPath(origin), root.entries, origin, order, EmptyMap)

\* load_templates_from_dir(dir, origin), read_dir yielding the entries in `order`.
load_templates_from_dir(root, origin, order) ==
    IF ~root.exists
    THEN [ok |-> TRUE, templates |-> EmptyMap, err |-> [kind |-> "", path |-> <<>>]]
    ELSE LoadLoop(RootPath(origin), root.entries, origin, order, EmptyMap)

\* The values of a map, in the iteration order `order` of its keys.
ValuesIn(m, order) == [i \in DOMAIN order |-> m[order[i]]]

\* Iterator::position over config.name: 0 stands for None.
Position(seq, name) ==
    IF \E i \in DOMAIN seq : seq[i].config.name = name
    THEN CHOOSE i \in DOMAIN seq :
            /\ seq[i].config.name = name
            /\ \A j \in 1..(i - 1) : seq[j].config.name # name
    ELSE 0

RemoveAt(seq, i) == SubSeq(seq, 1, i - 1) \o SubSeq(seq, i + 1, Len(seq))

\* The loop of all_templates over the local entries.
RECURSIVE MergeLocals(_, _)
MergeLocals(acc, locals) ==
    IF locals = <<>> THEN acc
    ELSE LET local == Head(locals)
             pos == Position(acc, local.config.name)
             kept == IF pos # 0 THEN RemoveAt(acc, pos) ELSE acc
         IN  MergeLocals(Append(kept, local), Tail(locals))

\* Option::unwrap_or
UnwrapOr(opt, dflt) == IF opt.some THEN opt.v ELSE dflt

\* A comparator that orders by id whether or not a display name is set.
TemplateCmp_by_id(a, b) ==
    IF a.origin = "Local" /\ b.origin = "BuiltIn" THEN "Greater"
    ELSE IF a.origin = "BuiltIn" /\ b.origin = "Local" THEN "Less"
    ELSE StrCmp(a.config.name, b.config.name)

\* The comparator all_templates hands to sort_by.
TemplateCmp(a, b) ==
    IF a.origin = "Local" /\ b.origin = "BuiltIn" THEN "Greater"
    ELSE IF a.origin = "BuiltIn" /\ b.origin = "Local" THEN "Less"
    ELSE StrCmp(UnwrapOr(a.config.display_name, a.config.name),
                UnwrapOr(b.config.display_name, b.config.name))

\* slice::sort_by is a stable sort: an element goes after every element that
\* is not Greater than it.
InsertStable(sorted, e) ==
    LET k == Cardinality({i \in DOMAIN sorted : TemplateCmp(sorted[i], e) # "Greater"})
    IN  SubSeq(sorted, 1, k) \o <<e>> \o SubSeq(sorted, k + 1, Len(sorted))

RECURSIVE SortBy(_)
SortBy(s) ==
    IF s = <<>> THEN <<>>
    ELSE InsertStable(SortBy(SubSeq(s, 1, Len(s) - 1)), s[Len(s)])

\* A merge that pushes every local entry without removing the built-in one.
all_templates_no_remove(built_in, local, bOrder, lOrder) ==
    SortBy(ValuesIn(built_in, bOrder) \o ValuesIn(local, lOrder))

\* A merge that drops the local entry when a built-in one has its id.
all_templates_keep_built_in(built_in, local, bOrder, lOrder) ==
    SortBy(ValuesIn(built_in, bOrder)
           \o SelectSeq(ValuesIn(local, lOrder),
                        LAMBDA e : e.config.name \notin DOMAIN built_in))

\* Hayaku::all_templates, the two maps iterated in bOrder and lOrder.
all_templates(built_in, local, bOrder, lOrder) ==
    SortBy(MergeLocals(ValuesIn(built_in, bOrder), ValuesIn(local, lOrder)))

\* A lookup that asks the built-in map first.
get_built_in_first(local, built_in, id) ==
    IF id \in DOMAIN built_in THEN Some(built_in[id])
    ELSE IF id \in DOMAIN local THEN Some(local[id])
    ELSE None

\* Hayaku::get
get(local, built_in, id) ==
    IF id \in DOMAIN local THEN Some(local[id])
    ELSE IF id \in DOMAIN built_in THEN Some(built_in[id])
    ELSE None

\* The directories a root holds, none when the root does not exist.
RootChoices ==
    {[exists |-> FALSE, entries |-> EmptyMap]}
    \cup {[exists |-> TRUE, entries |-> e] :
            e \in UNION {[D -> EntryKinds] : D \in SUBSET DirNames}}

NotCalled == [called |-> FALSE]

InitCatalog ==
    /\ roots \in {r \in [Origins -> RootChoices] :
                    Cardinality(DOMAIN r["Local"].entries)
                    + Cardinality(DOMAIN r["BuiltIn"].entries) <= MaxDirs}
    /\ load_state = "new"
    /\ load_err = [kind |-> "", path |-> <<>>]
    /\ local_templates = EmptyMap
    /\ built_in_templates = EmptyMap
    /\ combined = NotCalled
    /\ got = NotCalled
    /\ template_tree = EmptyMap
    /\ parent_git = FALSE
    /\ context = EmptyMap
    /\ dest_exists = FALSE
    /\ dest_tree = EmptyMap
    /\ pending = {}
    /\ gen_state = "idle"
    /\ gen_err = ""
    /\ pdp_in = NotCalled
    /\ pdp_out = <<>>
    /\ env_cfg = EmptyMap
    /\ global_env = None
    /\ env_state = "idle"
    /\ prompt_queue = <<>>
    /\ prompted = <<>>
    /\ values = EmptyMap
    /\ cek_in = NotCalled
    /\ cek_out = <<>>

\* Hayaku::try_new_from_dir: the local root is loaded first, then the built-in one.
TryNewFromDir ==
    /\ load_state = "new"
    /\ \E lOrder \in Orders(DOMAIN roots["Local"].entries),
          bOrder \in Orders(DOMAIN roots["BuiltIn"].entries) :
          LET l == load_templates_from_dir(roots["Local"], "Local", lOrder)
              b == load_templates_from_dir(roots["BuiltIn"], "BuiltIn", bOrder)
          IN  IF ~l.ok
              THEN /\ load_state' = "err"
                   /\ load_err' = l.err
                   /\ UNCHANGED <<local_templates, built_in_templates>>
              ELSE IF ~b.ok
              THEN /\ load_state' = "err"
                   /\ load_err' = b.err
                   /\ UNCHANGED <<local_templates, built_in_templates>>
              ELSE /\ load_state' = "ok"
                   /\ local_templates' = l.templates
                   /\ built_in_templates' = b.templates
                   /\ UNCHANGED load_err
    /\ UNCHANGED <<roots, combined, got>>

\* A call of Hayaku::all_templates.
AllTemplates ==
    /\ load_state = "ok"
    /\ \E bOrder \in Orders(DOMAIN built_in_templates),
          lOrder \in Orders(DOMAIN local_templates) :
          combined' = [called |-> TRUE,
                       v |-> all_templates(built_in_templates, local_templates,
                                           bOrder, lOrder)]
    /\ UNCHANGED <<roots, load_state, load_err, local_templates, built_in_templates, got>>

\* The ids a caller may ask for.
LookupIds == DirNames \cup DeclaredNames \cup {s_Zed}

\* A call of Hayaku::get(id).
Get ==
    /\ load_state = "ok"
    /\ \E id \in LookupIds :
          got' = [called |-> TRUE, id |-> id,
                  v |-> get(local_templates, built_in_templates, id)]
    /\ UNCHANGED <<roots, load_state, load_err, local_templates, built_in_templates,
                   combined>>

NextCatalog ==
    \/ TryNewFromDir /\ UNCHANGED <<genVars, pdpVars, envVars, cekVars>>
    \/ AllTemplates /\ UNCHANGED <<genVars, pdpVars, envVars, cekVars>>
    \/ Get /\ UNCHANGED <<genVars, pdpVars, envVars, cekVars>>

SpecCatalog == InitCatalog /\ [][NextCatalog]_vars

----------------------------------------------------------------------------
(* Claims about the catalog *)

SharedIds == DOMAIN local_templates \cap DOMAIN built_in_templates

IndicesOf(seq, id) == {i \in DOMAIN seq : seq[i].config.name = id}

\* C1: for every id both catalogs define, the merged view returned by
\* all_templates holds exactly one entry with that id, it is the Local entry
\* (origin Local, the local entry's path under the local root), and no BuiltIn
\* entry with that id is in the view.
C1_LocalOverridesInMerged ==
    combined.called =>
        \A id \in SharedIds :
            /\ Cardinality(IndicesOf(combined.v, id)) = 1
            /\ \A i \in IndicesOf(combined.v, id) :
                  /\ combined.v[i].origin = "Local"
                  /\ combined.v[i].path = local_templates[id].path
                  /\ combined.v[i].path[1] = s_templates
            /\ ~\E i \in DOMAIN combined.v :
                  combined.v[i].origin = "BuiltIn" /\ combined.v[i].config.name = id

C1_Witness ==
    /\ combined.called
    /\ SharedIds # {}
    /\ Len(combined.v) >= 2

\* C2: the merged view has |builtIn| + |local| - |shared ids| entries, one
\* for each id of either catalog: none lost, none duplicated.
C2_MergedCount ==
    combined.called =>
        /\ Len(combined.v) = Cardinality(DOMAIN built_in_templates)
                             + Cardinality(DOMAIN local_templates)
                             - Cardinality(SharedIds)
        /\ {combined.v[i].config.name : i \in DOMAIN combined.v}
              = DOMAIN built_in_templates \cup DOMAIN local_templates

C2_Witness ==
    /\ combined.called
    /\ SharedIds # {}
    /\ DOMAIN built_in_templates \ SharedIds # {}

\* C3: get(id) returns the Local entry when the local catalog defines id,
\* else the BuiltIn entry when the built-in catalog defines id, else nothing.
C3_LookupPrefersLocal ==
    got.called =>
        IF got.id \in DOMAIN local_templates
        THEN /\ got.v.some
             /\ got.v.v.origin = "Local"
             /\ got.v.v.config.name = got.id
             /\ got.v.v.path[1] = s_templates
        ELSE IF got.id \in DOMAIN built_in_templates
        THEN /\ got.v.some
             /\ got.v.v.origin = "BuiltIn"
             /\ got.v.v.config.name = got.id
             /\ got.v.v.path[1] = s_built_in
        ELSE ~got.v.some

C3_Witness ==
    /\ got.called
    /\ got.id \in SharedIds
    /\ got.v.some
    /\ got.v.v.origin = "Local"

----------------------------------------------------------------------------
(* Render context: src/src/env.rs *)

\* canonical_env_key without the replacement of the other characters.
canonical_env_key_keep_symbols(raw) ==
    [i \in DOMAIN raw |-> to_ascii_uppercase(raw[i])]

\* canonical_env_key
canonical_env_key(raw) ==
    [i \in DOMAIN raw |->
        IF is_ascii_alphanumeric(raw[i]) THEN to_ascii_uppercase(raw[i]) ELSE "_"]

\* A loop that inserts each value under the canonical key alone.
RECURSIVE InsertEnv_canonical_only(_, _)
InsertEnv_canonical_only(ctx, env_values) ==
    IF env_values = <<>> THEN ctx
    ELSE InsertEnv_canonical_only(
             MapInsert(ctx, canonical_env_key(Head(env_values)[1]), Head(env_values)[2]),
             Tail(env_values))

\* The loop of build_context over env_values, a sequence of <<key, value>>
\* in the map's iteration order.
RECURSIVE InsertEnv(_, _)
InsertEnv(ctx, env_values) ==
    IF env_values = <<>> THEN ctx
    ELSE LET key == Head(env_values)[1]
             value == Head(env_values)[2]
         IN  InsertEnv(MapInsert(MapInsert(ctx, key, value),
                                 canonical_env_key(key), value),
                       Tail(env_values))

\* build_context(project_name, config, env_values)
build_context(project_name, config, env_values) ==
    MapInsert(
        InsertEnv(MapInsert(MapInsert(EmptyMap, s_project_name, project_name),
                            s_PROJECT_NAME, project_name),
                  env_values),
        s_template_name, config.name)

\* project_name_from_path: the destination's final segment.
project_name_from_path(dest_path) == dest_path[Len(dest_path)]

----------------------------------------------------------------------------
(* Generation engine: src/src/templating.rs *)

\* A file's content is a sequence of pieces: literal text, or a reference
\* {{ name }} to a context variable.
Text(s) == [t |-> "text", s |-> s]
Var(name) == [t |-> "var", s |-> name]

\* The bytes of a piece, and of a file, as they lie on disk.
PieceBytes(piece) ==
    IF piece.t = "var" THEN <<"{", "{", " ">> \o piece.s \o <<" ", "}", "}">>
    ELSE piece.s

RECURSIVE Bytes(_)
Bytes(content) ==
    IF content = <<>> THEN <<>> ELSE PieceBytes(Head(content)) \o Bytes(Tail(content))

\* fs::read_to_string: fails on bytes that are not valid UTF-8.
read_to_string(content) ==
    IF ByteFF \in Range(Bytes(content))
    THEN [ok |-> FALSE, v |-> <<>>]
    ELSE [ok |-> TRUE, v |-> content]

\* Tera::render_str: each reference is replaced by the context's value, and
\* a reference to a name the context does not bind is an error.
RECURSIVE RenderPieces(_, _)
RenderPieces(content, ctx) ==
    IF content = <<>> THEN <<>>
    ELSE (IF Head(content).t = "var" THEN ctx[Head(content).s] ELSE Head(content).s)
         \o RenderPieces(Tail(content), ctx)

render_str(content, ctx) ==
    IF \E i \in DOMAIN content : content[i].t = "var" /\ content[i].s \notin DOMAIN ctx
    THEN [ok |-> FALSE, v |-> <<>>]
    ELSE [ok |-> TRUE, v |-> RenderPieces(content, ctx)]

\* A path-segment substitution that drops the brackets of an unbound name.
process_segment_strip_unbound(comp_str, ctx) ==
    IF starts_with(comp_str, "[") /\ ends_with(comp_str, "]")
    THEN LET var_name == SubSeq(comp_str, 2, Len(comp_str) - 1)
         IN  IF var_name \in DOMAIN ctx THEN ctx[var_name] ELSE var_name
    ELSE comp_str

\* The closure of process_dest_path, on one component.
process_segment(comp_str, ctx) ==
    IF starts_with(comp_str, "[") /\ ends_with(comp_str, "]")
    THEN LET var_name == SubSeq(comp_str, 2, Len(comp_str) - 1)
         IN  IF var_name \in DOMAIN ctx THEN ctx[var_name] ELSE comp_str
    ELSE comp_str

\* process_dest_path
process_dest_path(dest_path, ctx) ==
    [i \in DOMAIN dest_path |-> process_segment(dest_path[i], ctx)]

\* Path::extension of a file name: what follows the last '.', unless the
\* name has no '.' or only a leading one.
extension(file_name) ==
    LET dots == {i \in DOMAIN file_name : file_name[i] = "."}
    IN  IF dots = {} THEN None
        ELSE LET last == CHOOSE i \in dots : \A j \in dots : j <= i
             IN  IF last = 1 THEN None
                 ELSE Some(SubSeq(file_name, last + 1, Len(file_name)))

\* PathBuf::set_extension(""): the file name becomes its stem.
strip_extension(file_name) ==
    LET dots == {i \in DOMAIN file_name : file_name[i] = "."}
        last == CHOOSE i \in dots : \A j \in dots : j <= i
    IN  SubSeq(file_name, 1, last - 1)

has_tera_extension_case_sensitive(file_name) ==
    LET ext == extension(file_name) IN ext.some /\ ext.v = s_tera

\* The test render_from_template_file makes before set_extension("").
has_tera_extension(file_name) ==
    LET ext == extension(file_name) IN ext.some /\ eq_ignore_ascii_case(ext.v, s_tera)

\* The destination path render_from_template_file writes to.
resolve_dest_path(dest_path, ctx) ==
    LET processed == process_dest_path(dest_path, ctx)
        n == Len(processed)
    IN  IF n > 0 /\ has_tera_extension(processed[n])
        THEN [processed EXCEPT ![n] = strip_extension(processed[n])]
        ELSE processed

\* ---- the walk: ignore::WalkBuilder as create_project configures it

Prefix(p, k) == SubSeq(p, 1, k)

\* An entry (a file, or a directory holding one) exists in the tree.
EntryExists(tree, entry) ==
    \E p \in DOMAIN tree : Len(p) >= Len(entry) /\ Prefix(p, Len(entry)) = entry

\* The lines of a file.
RECURSIVE Lines(_)
Lines(bytes) ==
    LET nl == {i \in DOMAIN bytes : bytes[i] = "\n"}
    IN  IF bytes = <<>> THEN {}
        ELSE IF nl = {} THEN {bytes}
        ELSE LET first == CHOOSE i \in nl : \A j \in nl : i <= j
             IN  {SubSeq(bytes, 1, first - 1)}
                 \cup Lines(SubSeq(bytes, first + 1, Len(bytes)))

\* Overrides that name the template's metadata file only.
override_ignored_metadata_only(entry) == entry[Len(entry)] = s_hayaku_toml

\* The overrides "!**/.git" and "!**/hayaku.toml": an entry with one of these
\* names is skipped at any depth, a directory with all it holds.
override_ignored(entry) == entry[Len(entry)] \in {s_dot_git, s_hayaku_toml}

\* A directory holds a .git entry.
has_git(tree, dir) == EntryExists(tree, dir \o <<s_dot_git>>)

\* git_ignore(true) with the builder's default require_git: the .gitignore
\* files apply only where the directory of the entry, or a directory above
\* it, holds a .git entry; and a .gitignore above the nearest such directory
\* is not consulted.  The patterns modelled are plain names, which match an
\* entry of that name at any depth below the .gitignore.
git_ignored(tree, pgit, entry) ==
    LET dir == Prefix(entry, Len(entry) - 1)
        any_git == pgit \/ \E j \in 0..Len(dir) : has_git(tree, Prefix(dir, j))
    IN  /\ any_git
        /\ \E j \in 0..Len(dir) :
              LET ignore_file == Prefix(dir, j) \o <<s_dot_gitignore>>
              IN  /\ \A i \in (j + 1)..Len(dir) : ~has_git(tree, Prefix(dir, i))
                  /\ ignore_file \in DOMAIN tree
                  /\ entry[Len(entry)] \in Lines(Bytes(tree[ignore_file])) \ {<<>>}

\* The regular files walker.build() yields (hidden(false): dot files too).
walk(tree, pgit) ==
    {p \in DOMAIN tree :
        \A k \in 1..Len(p) :
            /\ ~override_ignored(Prefix(p, k))
            /\ ~git_ignored(tree, pgit, Prefix(p, k))}

\* ---- one file

\* fs::create_dir_all(parent) fails when a file lies where a directory is needed.
parent_is_blocked(dtree, dest_path) ==
    \E k \in 1..(Len(dest_path) - 1) : Prefix(dest_path, k) \in DOMAIN dtree

\* fs::write fails when the path is a directory.
is_directory(dtree, dest_path) ==
    \E p \in DOMAIN dtree : Len(p) > Len(dest_path) /\ Prefix(p, Len(dest_path)) = dest_path

\* render_from_template_file: the destination after the call, or the error.
render_from_template_file(content, dest_path, ctx, dtree) ==
    LET resolved == resolve_dest_path(dest_path, ctx)
        contents == read_to_string(content)
        rendered == render_str(contents.v, ctx)
    IN  IF parent_is_blocked(dtree, resolved)
        THEN [ok |-> FALSE, err |-> "CreateDir", tree |-> dtree]
        ELSE IF ~contents.ok
        THEN [ok |-> FALSE, err |-> "Read", tree |-> dtree]
        ELSE IF ~rendered.ok
        THEN [ok |-> FALSE, err |-> "Render", tree |-> dtree]
        ELSE IF is_directory(dtree, resolved)
        THEN [ok |-> FALSE, err |-> "Write", tree |-> dtree]
        ELSE [ok |-> TRUE, err |-> "", tree |-> MapInsert(dtree, resolved, rendered.v)]

\* ---- the generation run

\* Most files a template tree holds.
MaxFiles == 5

\* The destination directory of the run, and the project name it gives.
DestDir == <<s_demo>>

\* The files a template tree may hold.
FileUniverse ==
    [p \in {<<s_file_txt>>, <<s_nested, s_config_toml>>, <<s_dot_gitignore>>,
            <<s_ignored_txt>>, <<s_dot_git, s_config>>, <<s_hayaku_toml>>,
            <<s_config_toml_tera>>, <<s_README_TERA>>, <<s_skip_rs>>,
            <<s_logo_tera>>, <<<<"[">> \o s_PROJECT_NAME \o <<"]">>, s_main_rs>>} |->
        CASE p = <<s_file_txt>> -> <<Text(t_Hello), Var(s_project_name)>>
          [] p = <<s_nested, s_config_toml>> ->
                <<Text(t_name_eq), Var(s_PROJECT_NAME), Text(t_quote)>>
          [] p = <<s_dot_gitignore>> -> <<Text(t_ignored_line)>>
          [] p = <<s_ignored_txt>> -> <<Text(t_nope)>>
          [] p = <<s_dot_git, s_config>> -> <<Text(t_secret)>>
          [] p = <<s_hayaku_toml>> -> <<Text(t_template_section)>>
          [] p = <<s_config_toml_tera>> ->
                <<Text(t_name_eq), Var(s_template_name), Text(t_quote)>>
          [] p = <<s_README_TERA>> -> <<Text(t_Hello), Var(s_PROJECT_NAME)>>
          [] p = <<s_skip_rs>> ->
                <<Text(s_sentinel \o <<"\n">>), Var(s_project_name)>>
          [] p = <<s_logo_tera>> -> <<Text(<<ByteFF, "P", "N", "G">>)>>
          [] OTHER -> <<Text(t_fn_main)>>]

TemplateTrees ==
    {[p \in S |-> FileUniverse[p]] :
        S \in {T \in SUBSET DOMAIN FileUniverse : Cardinality(T) <= MaxFiles}}

InitGen ==
    /\ template_tree \in TemplateTrees
    /\ parent_git \in BOOLEAN
    /\ context = build_context(project_name_from_path(DestDir),
                               TemplateConfigDefault(s_demo), <<>>)
    /\ dest_exists \in BOOLEAN
    /\ dest_tree = EmptyMap
    /\ pending = {}
    /\ gen_state = "idle"
    /\ gen_err = ""
    /\ roots = [o \in Origins |-> [exists |-> FALSE, entries |-> EmptyMap]]
    /\ load_state = "new"
    /\ load_err = [kind |-> "", path |-> <<>>]
    /\ local_templates = EmptyMap
    /\ built_in_templates = EmptyMap
    /\ combined = NotCalled
    /\ got = NotCalled
    /\ pdp_in = NotCalled
    /\ pdp_out = <<>>
    /\ env_cfg = EmptyMap
    /\ global_env = None
    /\ env_state = "idle"
    /\ prompt_queue = <<>>
    /\ prompted = <<>>
    /\ values = EmptyMap
    /\ cek_in = NotCalled
    /\ cek_out = <<>>

\* create_project up to the loop: the destination directory is created when
\* it is missing, and the walker is built.
CreateProjectStart ==
    /\ gen_state = "idle"
    /\ dest_exists' = TRUE
    /\ pending' = walk(template_tree, parent_git)
    /\ gen_state' = "walking"
    /\ UNCHANGED <<template_tree, parent_git, context, dest_tree, gen_err>>

\* A loop that removes each template file once it is written to the destination.
CreateProjectStep_removes_source ==
    /\ gen_state = "walking"
    /\ \E p \in pending :
          LET r == render_from_template_file(template_tree[p], DestDir \o p,
                                             context, dest_tree)
          IN  IF r.ok
              THEN /\ dest_tree' = r.tree
                   /\ pending' = pending \ {p}
                   /\ template_tree' = [q \in DOMAIN template_tree \ {p} |-> template_tree[q]]
                   /\ UNCHANGED <<gen_state, gen_err>>
              ELSE /\ gen_state' = "failed"
                   /\ gen_err' = r.err
                   /\ UNCHANGED <<dest_tree, pending, template_tree>>
    /\ UNCHANGED <<parent_git, context, dest_exists>>

\* A loop that drops a file whose rendering failed and goes on with the next.
CreateProjectStep_skip_failures ==
    /\ gen_state = "walking"
    /\ \E p \in pending :
          LET r == render_from_template_file(template_tree[p], DestDir \o p,
                                             context, dest_tree)
          IN  /\ dest_tree' = r.tree
              /\ pending' = pending \ {p}
              /\ UNCHANGED <<gen_state, gen_err>>
    /\ UNCHANGED <<template_tree, parent_git, context, dest_exists>>

\* One turn of create_project's loop: the walker yields a file (in no
\* particular order) and render_from_template_file handles it; its error
\* ends the run.
CreateProjectStep ==
    /\ gen_state = "walking"
    /\ \E p \in pending :
          LET r == render_from_template_file(template_tree[p], DestDir \o p,
                                             context, dest_tree)
          IN  IF r.ok
              THEN /\ dest_tree' = r.tree
                   /\ pending' = pending \ {p}
                   /\ UNCHANGED <<gen_state, gen_err>>
              ELSE /\ gen_state' = "failed"
                   /\ gen_err' = r.err
                   /\ UNCHANGED <<dest_tree, pending>>
    /\ UNCHANGED <<template_tree, parent_git, context, dest_exists>>

\* The walk is exhausted: create_project returns Ok(()).
CreateProjectReturn ==
    /\ gen_state = "walking"
    /\ pending = {}
    /\ gen_state' = "done"
    /\ UNCHANGED <<template_tree, parent_git, context, dest_exists, dest_tree, pending,
                   gen_err>>

NextGen ==
    \/ CreateProjectStart /\ UNCHANGED <<catVars, pdpVars, envVars, cekVars>>
    \/ CreateProjectStep /\ UNCHANGED <<catVars, pdpVars, envVars, cekVars>>
    \/ CreateProjectReturn /\ UNCHANGED <<catVars, pdpVars, envVars, cekVars>>

SpecGen == InitGen /\ [][NextGen]_vars

----------------------------------------------------------------------------
(* process_dest_path on its own *)

\* Longest path handed to process_dest_path.
MaxSegments == 3

Bracketed(name) == <<"[">> \o name \o <<"]">>

\* The segments a path is made of: plain names, bracketed names, and
\* segments with one bracket or nothing between the brackets.
PathSegments ==
    {s_output, s_config_toml, Bracketed(s_PROJECT_NAME), Bracketed(s_template_name),
     <<"[", "]">>, <<"[", "x">>}

\* Contexts as a caller may build them with TeraContext::insert.
TeraContexts ==
    {EmptyMap,
     MapInsert(EmptyMap, s_project_name, s_demo),
     MapInsert(EmptyMap, s_PROJECT_NAME, s_demo),
     build_context(s_demo, TemplateConfigDefault(s_rust), <<>>)}

InitProcessDestPath ==
    /\ pdp_in \in {[called |-> FALSE, path |-> path, ctx |-> ctx] :
                     path \in UNION {[1..n -> PathSegments] : n \in 1..MaxSegments},
                     ctx \in TeraContexts}
    /\ pdp_out = <<>>
    /\ roots = [o \in Origins |-> [exists |-> FALSE, entries |-> EmptyMap]]
    /\ load_state = "new"
    /\ load_err = [kind |-> "", path |-> <<>>]
    /\ local_templates = EmptyMap
    /\ built_in_templates = EmptyMap
    /\ combined = NotCalled
    /\ got = NotCalled
    /\ template_tree = EmptyMap
    /\ parent_git = FALSE
    /\ context = EmptyMap
    /\ dest_exists = FALSE
    /\ dest_tree = EmptyMap
    /\ pending = {}
    /\ gen_state = "idle"
    /\ gen_err = ""
    /\ env_cfg = EmptyMap
    /\ global_env = None
    /\ env_state = "idle"
    /\ prompt_queue = <<>>
    /\ prompted = <<>>
    /\ values = EmptyMap
    /\ cek_in = NotCalled
    /\ cek_out = <<>>

\* A call of process_dest_path(path, ctx).
ProcessDestPath ==
    /\ ~pdp_in.called
    /\ pdp_in' = [pdp_in EXCEPT !.called = TRUE]
    /\ pdp_out' = process_dest_path(pdp_in.path, pdp_in.ctx)

NextProcessDestPath ==
    ProcessDestPath /\ UNCHANGED <<catVars, genVars, envVars, cekVars>>

SpecProcessDestPath == InitProcessDestPath /\ [][NextProcessDestPath]_vars

----------------------------------------------------------------------------
(* Claims about the generation engine *)

\* The path a template file is written to, and whether it has been written.
DestOf(p) == resolve_dest_path(DestDir \o p, context)
Written(p) == p \in DOMAIN template_tree /\ DestOf(p) \in DOMAIN dest_tree

\* An entry of the tree is named by a line of a .gitignore at or above it.
MatchedByIgnoreFile(entry) ==
    \E j \in 0..(Len(entry) - 1) :
        LET ignore_file == Prefix(entry, j) \o <<s_dot_gitignore>>
        IN  /\ ignore_file \in DOMAIN template_tree
            /\ entry[Len(entry)] \in Lines(Bytes(template_tree[ignore_file])) \ {<<>>}

\* C4: no template file matched by a pattern of a .gitignore in the tree, no
\* entry named .git at any depth, and no hayaku.toml is ever written to the
\* destination.
C4_IgnoredNeverWritten ==
    \A p \in DOMAIN template_tree :
        (\E k \in 1..Len(p) :
            \/ MatchedByIgnoreFile(Prefix(p, k))
            \/ p[k] = s_dot_git
            \/ p[k] = s_hayaku_toml)
        => ~Written(p)

\* The tree of the end-to-end scenario.
EndToEndTree ==
    [p \in {<<s_file_txt>>, <<s_nested, s_config_toml>>, <<s_dot_gitignore>>,
            <<s_ignored_txt>>, <<s_dot_git, s_config>>} |-> FileUniverse[p]]

EndToEndDone ==
    /\ template_tree = EndToEndTree
    /\ context[s_project_name] = s_demo
    /\ gen_state = "done"

\* C5 as stated: the end-to-end run leaves exactly two files in the
\* destination, file.txt = "Hello demo" and nested/config.toml = name = "demo".
C5_EndToEndExactlyTwoFiles ==
    EndToEndDone =>
        /\ DOMAIN dest_tree = {DestDir \o <<s_file_txt>>,
                               DestDir \o <<s_nested, s_config_toml>>}
        /\ dest_tree[DestDir \o <<s_file_txt>>] = t_Hello_demo
        /\ dest_tree[DestDir \o <<s_nested, s_config_toml>>] = t_name_demo

\* C5 amended: the end-to-end run leaves exactly three files in the
\* destination: file.txt = "Hello demo", nested/config.toml = name = "demo",
\* and the tree's .gitignore with its own content; ignored.txt and everything
\* under .git are absent.
C5_EndToEndThreeFiles ==
    EndToEndDone =>
        /\ DOMAIN dest_tree = {DestDir \o <<s_file_txt>>,
                               DestDir \o <<s_nested, s_config_toml>>,
                               DestDir \o <<s_dot_gitignore>>}
        /\ dest_tree[DestDir \o <<s_file_txt>>] = t_Hello_demo
        /\ dest_tree[DestDir \o <<s_nested, s_config_toml>>] = t_name_demo
        /\ dest_tree[DestDir \o <<s_dot_gitignore>>] = t_ignored_line

C5_Witness ==
    /\ EndToEndDone
    /\ DestDir \o <<s_file_txt>> \in DOMAIN dest_tree

\* A segment of the exact form [name], and the name in it.
IsBracketForm(seg) == Len(seg) >= 2 /\ seg[1] = "[" /\ seg[Len(seg)] = "]"
NameIn(seg) == [i \in 1..(Len(seg) - 2) |-> seg[i + 1]]

C7_UpperCaseNameResolves ==
    (/\ pdp_in.called
     /\ pdp_in.path = <<s_output, Bracketed(s_PROJECT_NAME), s_config_toml>>
     /\ pdp_in.ctx = MapInsert(EmptyMap, s_project_name, s_demo))
    => pdp_out = <<s_output, s_demo, s_config_toml>>

\* The first line of a file, without one trailing \r.
FirstLine(bytes) ==
    LET nl == {i \in DOMAIN bytes : bytes[i] = "\n"}
        line == IF nl = {} THEN bytes
                ELSE SubSeq(bytes, 1, (CHOOSE i \in nl : \A j \in nl : i <= j) - 1)
    IN  IF ends_with(line, "\r") THEN SubSeq(line, 1, Len(line) - 1) ELSE line

\* C8: a file whose first line is the sentinel // hayaku: skip-templating is
\* written to the destination byte-identical to the source.
C8_SkipDirectiveCopiesVerbatim ==
    \A p \in DOMAIN template_tree :
        (Written(p) /\ FirstLine(Bytes(template_tree[p])) = s_sentinel)
        => dest_tree[DestOf(p)] = Bytes(template_tree[p])

\* The files the run has handled so far.
Processed ==
    IF gen_state = "idle" THEN {}
    ELSE walk(template_tree, parent_git) \ pending

\* A name ends in ".tera", whatever the case, after at least one character.
EndsInMarker(name) ==
    /\ Len(name) > 5
    /\ name[Len(name) - 4] = "."
    /\ \A i \in 1..4 : to_ascii_lowercase(name[Len(name) - 4 + i]) = s_tera[i]

WithLast(path, name) == [path EXCEPT ![Len(path)] = name]

\* C9: a file with the extension tera (in any case) is rendered and written
\* at its destination path (bracketed segments resolved) with that extension
\* removed; a file without it is rendered and written under its own name.
C9_ExtensionStripping ==
    \A p \in Processed :
        LET name == p[Len(p)]
            at == process_dest_path(DestDir \o p, context)
            target == IF EndsInMarker(name)
                      THEN WithLast(at, SubSeq(name, 1, Len(name) - 5))
                      ELSE WithLast(at, name)
        IN  /\ target \in DOMAIN dest_tree
            /\ dest_tree[target] = RenderPieces(template_tree[p], context)
            /\ EndsInMarker(name) => at \notin DOMAIN dest_tree

C9_Witness ==
    /\ gen_state = "done"
    /\ {<<s_config_toml_tera>>, <<s_README_TERA>>, <<s_file_txt>>} \subseteq Processed
    /\ DestDir \o <<s_config_toml>> \in DOMAIN dest_tree
    /\ DestDir \o <<s_README>> \in DOMAIN dest_tree
    /\ DestDir \o <<s_file_txt>> \in DOMAIN dest_tree

\* C10: a file whose content is not valid UTF-8 does not make the run fail,
\* and its bytes reach the destination unchanged.
C10_BinaryPassThrough ==
    \A p \in DOMAIN template_tree :
        ByteFF \in Range(Bytes(template_tree[p])) =>
            /\ ~(gen_state = "failed" /\ gen_err = "Read")
            /\ (gen_state = "done" /\ p \in walk(template_tree, parent_git))
               => (Written(p) /\ dest_tree[DestOf(p)] = Bytes(template_tree[p]))

----------------------------------------------------------------------------
(* canonical_env_key as a function of its argument *)

MaxKeyLen == 3

\* A character outside ASCII (U+00E9): one char of the String.
NonAscii == "<U+00E9>"

KeyChars == {"a", "z", "Q", "7", "-", "_", " ", ".", NonAscii}

RawKeys ==
    UNION {[1..n -> KeyChars] : n \in 0..MaxKeyLen} \cup {s_crate_type, s_with_hyphen}

InitCanonicalEnvKey ==
    /\ cek_in \in {[called |-> FALSE, raw |-> raw] : raw \in RawKeys}
    /\ cek_out = <<>>
    /\ roots = [o \in Origins |-> [exists |-> FALSE, entries |-> EmptyMap]]
    /\ load_state = "new"
    /\ load_err = [kind |-> "", path |-> <<>>]
    /\ local_templates = EmptyMap
    /\ built_in_templates = EmptyMap
    /\ combined = NotCalled
    /\ got = NotCalled
    /\ template_tree = EmptyMap
    /\ parent_git = FALSE
    /\ context = EmptyMap
    /\ dest_exists = FALSE
    /\ dest_tree = EmptyMap
    /\ pending = {}
    /\ gen_state = "idle"
    /\ gen_err = ""
    /\ pdp_in = NotCalled
    /\ pdp_out = <<>>
    /\ env_cfg = EmptyMap
    /\ global_env = None
    /\ env_state = "idle"
    /\ prompt_queue = <<>>
    /\ prompted = <<>>
    /\ values = EmptyMap

\* A call of canonical_env_key(raw).
CanonicalEnvKey ==
    /\ ~cek_in.called
    /\ cek_in' = [cek_in EXCEPT !.called = TRUE]
    /\ cek_out' = canonical_env_key(cek_in.raw)

NextCanonicalEnvKey ==
    CanonicalEnvKey /\ UNCHANGED <<catVars, genVars, pdpVars, envVars>>

SpecCanonicalEnvKey == InitCanonicalEnvKey /\ [][NextCanonicalEnvKey]_vars

\* C11: canonical_env_key returns, for every key, a string of the same length
\* (in characters) in which every ASCII letter or digit of the key stands
\* upper-cased and every other character is "_"; applying it to its own
\* result changes nothing; "crate_type" gives "CRATE_TYPE" and "with-hyphen"
\* gives "WITH_HYPHEN".
C11_CanonicalKey ==
    cek_in.called =>
        /\ Len(cek_out) = Len(cek_in.raw)
        /\ \A i \in DOMAIN cek_in.raw :
              IF cek_in.raw[i] \in Range(LowerCase) \cup Range(UpperCase) \cup Range(DigitChars)
              THEN /\ cek_out[i] \in Range(UpperCase) \cup Range(DigitChars)
                   /\ to_ascii_lowercase(cek_out[i]) = to_ascii_lowercase(cek_in.raw[i])
              ELSE cek_out[i] = "_"
        /\ canonical_env_key(cek_out) = cek_out
        /\ (cek_in.raw = s_crate_type => cek_out = s_CRATE_TYPE)
        /\ (cek_in.raw = s_with_hyphen => cek_out = s_WITH_HYPHEN)

\* A key with a letter, a symbol and a non-ASCII character has been converted.
C11_Witness ==
    /\ cek_in.called
    /\ \E i, j, k \in DOMAIN cek_in.raw :
          /\ cek_in.raw[i] \in Range(LowerCase)
          /\ cek_in.raw[j] = "-"
          /\ cek_in.raw[k] = NonAscii

----------------------------------------------------------------------------
(* Claims about discovery *)

\* The map discovery built for an origin.
TemplatesOf(o) == IF o = "Local" THEN local_templates ELSE built_in_templates

\* The directories of a root, and the id discovery files a directory under.
DirsOf(o) == {d \in DOMAIN roots[o].entries : roots[o].entries[d].kind # "file"}
IdOf(o, d) ==
    IF roots[o].entries[d].kind = "ok" THEN roots[o].entries[d].name ELSE d

\* No directory of any root holds an unparsable hayaku.toml.
AllParse == \A o \in Origins : \A d \in DirsOf(o) : roots[o].entries[d].kind # "bad"

\* The entry discovery makes of directory d of origin o.
IsPlainEntryOf(e, o, d) ==
    /\ e.path = RootPath(o) \o <<d>>
    /\ e.origin = o
    /\ e.config.name = d
    /\ ~e.config.display_name.some
    /\ ~e.config.description.some
    /\ ~e.config.author.some
    /\ e.config.env = EmptyMap

IsDeclaredEntryOf(e, o, d) ==
    /\ e.path = RootPath(o) \o <<d>>
    /\ e.origin = o
    /\ e.config.name = roots[o].entries[d].name
    /\ e.config.display_name = roots[o].entries[d].display_name

OtherOrigin(o) == IF o = "Local" THEN "BuiltIn" ELSE "Local"

\* C13: for each root, when its directory does not exist, discovery does not
\* fail on it and yields the empty map for that origin: the run fails only
\* on an unparsable directory of the other root, with that directory's error;
\* the step neither issues a prompt nor creates the missing directory.
C13_MissingRootIsEmpty ==
    /\ [](\A o \in Origins :
            (load_state # "new" /\ ~roots[o].exists) =>
                /\ load_state = "ok"
                      <=> (\A d \in DirsOf(OtherOrigin(o)) :
                              roots[OtherOrigin(o)].entries[d].kind # "bad")
                /\ load_state = "ok" => TemplatesOf(o) = EmptyMap
                /\ load_state = "err" =>
                      /\ load_err.kind = "ConfigParse"
                      /\ load_err.path[1] = RootPath(OtherOrigin(o))[1])
    /\ [][\A o \in Origins :
            (load_state = "new" /\ load_state' # "new" /\ ~roots[o].exists) =>
                /\ ~roots'[o].exists
                /\ prompted' = prompted]_vars

\* Discovery succeeded with the local root missing and built-in templates found.
C13_Witness ==
    /\ load_state = "ok"
    /\ ~roots["Local"].exists
    /\ roots["BuiltIn"].exists
    /\ built_in_templates # EmptyMap
    /\ local_templates = EmptyMap

\* The name an entry is listed by: its display name when set, else its id.
ListedName(e) == IF e.config.display_name.some THEN e.config.display_name.v ELSE e.config.name

\* What the order of the combined view depends on, entry by entry.
ViewKeys(seq) == [i \in DOMAIN seq |-> <<seq[i].origin, ListedName(seq[i])>>]

\* C14: in the view all_templates returns every BuiltIn entry stands before
\* every Local entry, and within an origin the listed names (display name
\* when set, else id) never decrease in byte order; whatever order the two
\* maps are iterated in, the view has the same entries with the same sequence
\* of sort keys, so it differs at most in the order of entries with equal keys.
C14_CombinedViewSorted ==
    combined.called =>
        /\ \A i, j \in DOMAIN combined.v :
              i < j =>
                  /\ ~(combined.v[i].origin = "Local" /\ combined.v[j].origin = "BuiltIn")
                  /\ combined.v[i].origin = combined.v[j].origin
                        => StrCmp(ListedName(combined.v[i]), ListedName(combined.v[j]))
                              # "Greater"
        /\ \A bOrder \in Orders(DOMAIN built_in_templates),
              lOrder \in Orders(DOMAIN local_templates) :
              LET other == all_templates(built_in_templates, local_templates, bOrder, lOrder)
              IN  /\ Range(other) = Range(combined.v)
                  /\ ViewKeys(other) = ViewKeys(combined.v)

\* The view lists two entries of one origin in the order of their listed
\* names, which is the reverse of the order of their ids.
C14_Witness ==
    /\ combined.called
    /\ \E i, j \in DOMAIN combined.v :
          /\ i < j
          /\ combined.v[i].origin = combined.v[j].origin
          /\ StrCmp(combined.v[i].config.name, combined.v[j].config.name) = "Greater"
          /\ StrCmp(ListedName(combined.v[i]), ListedName(combined.v[j])) = "Less"

----------------------------------------------------------------------------
(* Variable collection: prompt_for_env and build_context, src/src/env.rs *)

\* Most variables a template declares.
MaxVars == 2

VarKeys == {s_crate_type, s_with_hyphen, s_project_name, s_template_name,
            s_license, s_LICENSE}

\* EnvVarConfig: String without default, Choices of lib and bin, Bool.
EnvVarConfigs ==
    {[type |-> "String", choices |-> <<>>, default |-> None],
     [type |-> "Choices", choices |-> <<s_lib, s_bin>>, default |-> Some(s_bin)],
     [type |-> "Bool", choices |-> <<>>, default |-> Some(s_false)]}

\* What interact() can return for a variable.
Answers(cfg) ==
    IF cfg.type = "String"
    THEN {s_x} \cup (IF cfg.default.some THEN {cfg.default.v} ELSE {})
    ELSE IF cfg.type = "Choices" THEN Range(cfg.choices)
    ELSE {s_true, s_false}

GlobalEnvs ==
    {None, Some(MapInsert(EmptyMap, s_LICENSE, s_MIT)),
     Some(MapInsert(EmptyMap, s_license, s_MIT))}

\* The keys left as collect() gave them.
sort_unsorted(keys) == keys

\* Vec<String>::sort
RECURSIVE sort(_)
sort(keys) ==
    IF keys = <<>> THEN <<>>
    ELSE LET rest == sort(SubSeq(keys, 1, Len(keys) - 1))
             e == keys[Len(keys)]
             k == Cardinality({i \in DOMAIN rest : StrCmp(rest[i], e) # "Greater"})
         IN  SubSeq(rest, 1, k) \o <<e>> \o SubSeq(rest, k + 1, Len(rest))

\* The template the variables are collected for, and the project's name.
EnvTemplateConfig == [TemplateConfigDefault(s_rust) EXCEPT !.env = env_cfg]
EnvProjectName == project_name_from_path(DestDir)

InitEnv ==
    /\ env_cfg \in UNION {[D -> EnvVarConfigs] :
                            D \in {K \in SUBSET VarKeys : Cardinality(K) <= MaxVars}}
    /\ global_env \in GlobalEnvs
    /\ env_state = "idle"
    /\ prompt_queue = <<>>
    /\ prompted = <<>>
    /\ values = EmptyMap
    /\ roots = [o \in Origins |-> [exists |-> FALSE, entries |-> EmptyMap]]
    /\ load_state = "new"
    /\ load_err = [kind |-> "", path |-> <<>>]
    /\ local_templates = EmptyMap
    /\ built_in_templates = EmptyMap
    /\ combined = NotCalled
    /\ got = NotCalled
    /\ template_tree = EmptyMap
    /\ parent_git = FALSE
    /\ context = EmptyMap
    /\ dest_exists = FALSE
    /\ dest_tree = EmptyMap
    /\ pending = {}
    /\ gen_state = "idle"
    /\ gen_err = ""
    /\ pdp_in = NotCalled
    /\ pdp_out = <<>>
    /\ cek_in = NotCalled
    /\ cek_out = <<>>

\* prompt_for_env up to its first prompt: nothing to ask returns the empty
\* map, otherwise the keys are collected in the map's order and sorted.
PromptForEnv ==
    /\ env_state = "idle"
    /\ IF env_cfg = EmptyMap
       THEN /\ env_state' = "collected"
            /\ prompt_queue' = <<>>
       ELSE /\ env_state' = "prompting"
            /\ \E keys \in Orders(DOMAIN env_cfg) : prompt_queue' = sort(keys)
    /\ values' = EmptyMap
    /\ UNCHANGED <<env_cfg, global_env, prompted, context>>

\* One turn of the loop of prompt_for_env: the prompt for the next key is
\* answered, or interact() fails and `?` returns the error.
Interact ==
    /\ env_state = "prompting"
    /\ LET key == Head(prompt_queue)
       IN  /\ prompted' = Append(prompted, key)
           /\ \/ \E value \in Answers(env_cfg[key]) :
                    /\ values' = MapInsert(values, key, value)
                    /\ prompt_queue' = Tail(prompt_queue)
                    /\ env_state' = IF Tail(prompt_queue) = <<>>
                                    THEN "collected" ELSE "prompting"
              \/ /\ env_state' = "err"
                 /\ UNCHANGED <<values, prompt_queue>>
    /\ UNCHANGED <<env_cfg, global_env, context>>

\* build_context(project_name, config, &values), the map iterated in any order.
BuildContext ==
    /\ env_state = "collected"
    /\ \E order \in Orders(DOMAIN values) :
          context' = build_context(EnvProjectName, EnvTemplateConfig,
                                   [i \in DOMAIN order |-> <<order[i], values[order[i]]>>])
    /\ env_state' = "built"
    /\ UNCHANGED <<env_cfg, global_env, prompt_queue, prompted, values>>

NextEnv ==
    \/ PromptForEnv /\ UNCHANGED <<catVars, pdpVars, cekVars, template_tree, parent_git,
                                   dest_exists, dest_tree, pending, gen_state, gen_err>>
    \/ Interact /\ UNCHANGED <<catVars, pdpVars, cekVars, template_tree, parent_git,
                               dest_exists, dest_tree, pending, gen_state, gen_err>>
    \/ BuildContext /\ UNCHANGED <<catVars, pdpVars, cekVars, template_tree, parent_git,
                                   dest_exists, dest_tree, pending, gen_state, gen_err>>

SpecEnv == InitEnv /\ [][NextEnv]_vars

\* C15: prompt_for_env asks once for each declared variable, in ascending
\* byte order of the raw keys, whatever order the map yields them in; with no
\* variable declared it asks nothing and returns the empty map.
C15_PromptsInKeyOrder ==
    /\ \A i, j \in DOMAIN prompted :
          i < j => StrCmp(prompted[i], prompted[j]) = "Less"
    /\ Range(prompted) \subseteq DOMAIN env_cfg
    /\ env_state \in {"collected", "built"} =>
          /\ Range(prompted) = DOMAIN env_cfg
          /\ Len(prompted) = Cardinality(DOMAIN env_cfg)
          /\ DOMAIN values = DOMAIN env_cfg
    /\ (env_cfg = EmptyMap /\ env_state # "idle") =>
          /\ env_state \in {"collected", "built"}
          /\ prompted = <<>>
          /\ values = EmptyMap

\* Every variable of a template with MaxVars variables has been asked for.
C15_Witness ==
    /\ env_state = "collected"
    /\ Len(prompted) = MaxVars

\* The four reserved keys.
ReservedKeys == {s_project_name, s_PROJECT_NAME, s_template_name, s_TEMPLATE_NAME}

\* The canonical keys of the collected variables.
CanonicalKeys == {canonical_env_key(k) : k \in DOMAIN values}

\* The values of the variables whose canonical key is c.
ValuesUnder(c) == {values[k] : k \in {x \in DOMAIN values : canonical_env_key(x) = c}}

\* C16 as stated: once the context is built, project_name and PROJECT_NAME
\* hold the project's name and template_name and TEMPLATE_NAME hold the
\* template's id, whatever variables the template declares.
C16_ReservedKeysHold ==
    env_state = "built" =>
        /\ ReservedKeys \subseteq DOMAIN context
        /\ context[s_project_name] = EnvProjectName
        /\ context[s_PROJECT_NAME] = EnvProjectName
        /\ context[s_template_name] = EnvTemplateConfig.name
        /\ context[s_TEMPLATE_NAME] = EnvTemplateConfig.name

\* C17 as stated: once the context is built, every key of the global settings
\* is in it under its canonical form, holding the setting's value unless a
\* variable of the template has the same canonical key, whose value it then holds.
C17_GlobalSettingsInContext ==
    (env_state = "built" /\ global_env.some) =>
        \A g \in DOMAIN global_env.v :
            /\ canonical_env_key(g) \in DOMAIN context
            /\ IF canonical_env_key(g) \in CanonicalKeys
               THEN context[canonical_env_key(g)] \in ValuesUnder(canonical_env_key(g))
               ELSE context[canonical_env_key(g)] = global_env.v[g]

----------------------------------------------------------------------------
(* Claims about a failing generation run *)

\* The files of the walk whose rendering would fail on the destination as it is.
FailingNow ==
    {p \in pending :
        ~render_from_template_file(template_tree[p], DestDir \o p, context, dest_tree).ok}

\* C19: create_project handles the files of the walk one at a time; the first
\* file that fails ends the run with that file's error; once the run has
\* failed nothing more is read or written, and what was written before the
\* failure stays in the destination.
C19_FirstFailureEndsRun ==
    /\ [](/\ gen_state # "idle" => \A p \in Processed : Written(p)
          /\ gen_state = "failed" =>
                \E p \in FailingNow :
                    gen_err = render_from_template_file(template_tree[p], DestDir \o p,
                                                        context, dest_tree).err
          /\ gen_state = "done" => (pending = {} /\ gen_err = ""))
    /\ [][/\ Cardinality(pending \ pending') <= 1
          /\ \A q \in DOMAIN dest_tree :
                q \in DOMAIN dest_tree' /\ (gen_state' = "failed" => dest_tree'[q] = dest_tree[q])
          /\ (gen_state' = "failed" /\ gen_state # "failed") =>
                (dest_tree' = dest_tree /\ pending' = pending)
          /\ gen_state = "failed" =>
                UNCHANGED <<dest_tree, pending, gen_state, gen_err>>]_vars

\* A run failed after writing a file, with files of the walk left unhandled
\* besides the failing one.
C19_Witness ==
    /\ gen_state = "failed"
    /\ dest_tree # EmptyMap
    /\ Cardinality(pending) >= 2

----------------------------------------------------------------------------
(* Rendering in place: render_templates_in_dir, src/archive/copy.rs.  Its
   body walks and writes under one directory, `root`; the tree of that
   directory is template_tree here, and the separate destination of
   create_project is dest_tree. *)

\* templating::render_file(src_path, context): the bytes to write.  A file
\* that is not UTF-8 and a file whose first line is the skip directive are
\* passed through; any other file is rendered.
render_file(content, ctx) ==
    IF ByteFF \in Range(Bytes(content)) THEN [ok |-> TRUE, v |-> Bytes(content)]
    ELSE IF FirstLine(Bytes(content)) = s_sentinel THEN [ok |-> TRUE, v |-> Bytes(content)]
    ELSE render_str(content, ctx)

\* WalkBuilder::new(root).hidden(false): no overrides, so .git and
\* hayaku.toml are walked too; the .gitignore rules are the default ones.
walk_in_dir(tree, pgit) ==
    {p \in DOMAIN tree : \A k \in 1..Len(p) : ~git_ignored(tree, pgit, Prefix(p, k))}

\* output_relpath: the path with a tera extension taken off.
output_relpath(relative_path) ==
    LET n == Len(relative_path)
    IN  IF has_tera_extension(relative_path[n])
        THEN [relative_path EXCEPT ![n] = strip_extension(relative_path[n])]
        ELSE relative_path

InitRender ==
    /\ template_tree \in TemplateTrees
    /\ parent_git \in BOOLEAN
    /\ context = build_context(project_name_from_path(DestDir),
                               TemplateConfigDefault(s_demo), <<>>)
    /\ gen_state \in {"idle", "in_dir_idle"}
    /\ dest_exists = (gen_state = "in_dir_idle")
    /\ dest_tree = EmptyMap
    /\ pending = {}
    /\ gen_err = ""
    /\ roots = [o \in Origins |-> [exists |-> FALSE, entries |-> EmptyMap]]
    /\ load_state = "new"
    /\ load_err = [kind |-> "", path |-> <<>>]
    /\ local_templates = EmptyMap
    /\ built_in_templates = EmptyMap
    /\ combined = NotCalled
    /\ got = NotCalled
    /\ pdp_in = NotCalled
    /\ pdp_out = <<>>
    /\ env_cfg = EmptyMap
    /\ global_env = None
    /\ env_state = "idle"
    /\ prompt_queue = <<>>
    /\ prompted = <<>>
    /\ values = EmptyMap
    /\ cek_in = NotCalled
    /\ cek_out = <<>>

\* render_templates_in_dir up to its second loop: the files are collected.
RenderTemplatesInDirCollect ==
    /\ gen_state = "in_dir_idle"
    /\ pending' = walk_in_dir(template_tree, parent_git)
    /\ gen_state' = "in_dir"
    /\ UNCHANGED <<template_tree, parent_git, context, dest_exists, dest_tree, gen_err>>

\* One turn of the second loop: the file is rendered, written under root at
\* its output path, and removed when the output path is another path.
RenderTemplatesInDirStep ==
    /\ gen_state = "in_dir"
    /\ \E src_path \in pending :
          LET dest_path == output_relpath(src_path)
              rendered == render_file(template_tree[src_path], context)
              kept == IF dest_path # src_path
                      THEN DOMAIN template_tree \ {src_path}
                      ELSE DOMAIN template_tree
          IN  IF ~rendered.ok
              THEN /\ gen_state' = "in_dir_failed"
                   /\ gen_err' = "Render"
                   /\ UNCHANGED <<template_tree, pending>>
              ELSE IF is_directory(template_tree, dest_path)
              THEN /\ gen_state' = "in_dir_failed"
                   /\ gen_err' = "Write"
                   /\ UNCHANGED <<template_tree, pending>>
              ELSE /\ template_tree' =
                         [q \in kept \cup {dest_path} |->
                             IF q = dest_path THEN <<Text(rendered.v)>>
                             ELSE template_tree[q]]
                   /\ pending' = pending \ {src_path}
                   /\ UNCHANGED <<gen_state, gen_err>>
    /\ UNCHANGED <<parent_git, context, dest_exists, dest_tree>>

\* The list is exhausted: render_templates_in_dir returns Ok(()).
RenderTemplatesInDirReturn ==
    /\ gen_state = "in_dir"
    /\ pending = {}
    /\ gen_state' = "in_dir_done"
    /\ UNCHANGED <<template_tree, parent_git, context, dest_exists, dest_tree, pending,
                   gen_err>>

NextRender ==
    \/ CreateProjectStart /\ UNCHANGED <<catVars, pdpVars, envVars, cekVars>>
    \/ CreateProjectStep /\ UNCHANGED <<catVars, pdpVars, envVars, cekVars>>
    \/ CreateProjectReturn /\ UNCHANGED <<catVars, pdpVars, envVars, cekVars>>
    \/ RenderTemplatesInDirCollect /\ UNCHANGED <<catVars, pdpVars, envVars, cekVars>>
    \/ RenderTemplatesInDirStep /\ UNCHANGED <<catVars, pdpVars, envVars, cekVars>>
    \/ RenderTemplatesInDirReturn /\ UNCHANGED <<catVars, pdpVars, envVars, cekVars>>

SpecRender == InitRender /\ [][NextRender]_vars

\* The states of a create_project run, whose destination is another tree.
SeparateTrees == gen_state \in {"idle", "walking", "done", "failed"}

\* C20: no step of a create_project run, successful or failing, creates,
\* changes or deletes a file of the template tree; a file leaves the template
\* tree only by a step of render_templates_in_dir, which has just written that
\* file's output into the same tree under another path and leaves the separate
\* destination alone.
C20_SourceNeverMutated ==
    [][/\ SeparateTrees => template_tree' = template_tree
       /\ \A p \in DOMAIN template_tree \ DOMAIN template_tree' :
             /\ gen_state = "in_dir"
             /\ output_relpath(p) # p
             /\ output_relpath(p) \in DOMAIN template_tree'
       /\ ~SeparateTrees => dest_tree' = dest_tree]_vars

\* A create_project run has ended, with files written or on a failure, and
\* the template tree still holds a file with the tera extension.
C20_Witness ==
    /\ gen_state \in {"done", "failed"}
    /\ dest_tree # EmptyMap
    /\ \E p \in DOMAIN template_tree :
          has_tera_extension(p[Len(p)]) /\ DestOf(p) \in DOMAIN dest_tree

----------------------------------------------------------------------------
(* Claims about a failing discovery *)

\* The hayaku.toml files that do not parse, of one origin and of all.
UnparsableIn(o) ==
    {RootPath(o) \o <<d, s_hayaku_toml>> :
        d \in {x \in DirsOf(o) : roots[o].entries[x].kind = "bad"}}
Unparsable == UnparsableIn("Local") \cup UnparsableIn("BuiltIn")

\* C21: when the hayaku.toml of any directory of either root does not parse,
\* Hayaku::try_new_from_dir fails with the parse error of one such file (a
\* local one when there is one, the local root being loaded first), it keeps
\* no map of either origin, and no combined view or lookup result is ever
\* produced from that run.
C21_DiscoveryAllOrNothing ==
    (load_state # "new" /\ Unparsable # {}) =>
        /\ load_state = "err"
        /\ load_err.kind = "ConfigParse"
        /\ load_err.path \in Unparsable
        /\ UnparsableIn("Local") # {} => load_err.path \in UnparsableIn("Local")
        /\ local_templates = EmptyMap
        /\ built_in_templates = EmptyMap
        /\ ~combined.called
        /\ ~got.called

\* Discovery failed on a root that holds, beside the directory whose
\* hayaku.toml does not parse, a directory that loads, the other root
\* holding a directory that loads as well.
C21_Witness ==
    /\ load_state = "err"
    /\ \E o \in Origins :
          /\ UnparsableIn(o) # {}
          /\ \E d \in DirsOf(o) : roots[o].entries[d].kind \in {"none", "ok"}
          /\ \E d \in DirsOf(OtherOrigin(o)) :
                roots[OtherOrigin(o)].entries[d].kind \in {"none", "ok"}
          /\ UnparsableIn(OtherOrigin(o)) = {}

====
